---- MODULE Spec2Model ----
(***************************************************************************)
(* LearnPulse: the background service worker (generation pipeline,         *)
(* fallback orchestrator, persistence, grading) and the SM-2 engine.       *)
(*                                                                         *)
(* Conventions of the model                                                *)
(*  - time is counted in ticks, TicksPerDay ticks to a UTC calendar day;   *)
(*    a day key ("2024-01-02") is the 1-tuple <<d>>, JavaScript null is    *)
(*    the empty tuple <<>>;                                                *)
(*  - easeFactor is kept in hundredths (2.5 is 250), so the SM-2 ease      *)
(*    adjustment, a multiple of 0.01, is exact;                            *)
(*  - a JavaScript object is a function whose DOMAIN holds the fields      *)
(*    that are present;                                                    *)
(*  - every await of the source is a step of its own, so that other        *)
(*    listeners interleave exactly where the source yields.                *)
(***************************************************************************)
EXTENDS Integers, Sequences, FiniteSets, TLC

VARIABLES
    now,            \* wall clock, in ticks
    settings,       \* chrome.storage.local learnpulse_settings
    lessons,        \* chrome.storage.local learnpulse_lessons
    flashcards,     \* chrome.storage.local learnpulse_flashcards
    stats,          \* chrome.storage.local learnpulse_stats
    lastGenerated,  \* chrome.storage.local learnpulse_last_generated_at
    runs,           \* one record per listener invocation slot (its locals)
    grader,         \* the locals of the gradeFlashcard invocation
    srsCard,        \* SM-2 engine: the card under review
    srsLog,         \* SM-2 engine: the reviews applied, [prior, grade] each
    alarms,         \* chrome.alarms: the alarms registered
    chunker         \* the locals of the chunkSources invocation

vars == <<now, settings, lessons, flashcards, stats, lastGenerated, runs, grader,
          srsCard, srsLog, alarms, chunker>>

----------------------------------------------------------------------------
(* Bounds of the model.                                                    *)

TicksPerDay == 2
MaxNow == 2
MaxRuns == 2
MaxLessons == 2
MaxReviewed == 1
MaxDue == 6
MaxPreferences == 3
MaxReviews == 2

----------------------------------------------------------------------------
(* Generic helpers.                                                        *)

Max(a, b) == IF a >= b THEN a ELSE b
Min(a, b) == IF a <= b THEN a ELSE b

Has(obj, f) == f \in DOMAIN obj

\* !obj.f for a numeric field: undefined and 0 are falsy.
Falsy(obj, f) == ~Has(obj, f) \/ obj[f] = 0

\* { ...obj, f: v }
Put(obj, f, v) == [x \in DOMAIN obj \cup {f} |-> IF x = f THEN v ELSE obj[x]]

\* Math.round of the non-negative rational n / 100 (halves round up).
MathRound100(n) == (n + 50) \div 100

DayOf(t) == t \div TicksPerDay

----------------------------------------------------------------------------
(* SM-2 engine (lib/srs-engine.js).                                        *)

DefaultEase == 250
MinEase == 130
PassingGrade == 3

\* Math.max(0, Math.min(5, Number(grade)))
ClampGrade_NoLowerBound(grade) == Min(5, grade)

ClampGrade(grade) == Max(0, Min(5, grade))

Sm2Ease(card) == IF Falsy(card, "easeFactor") THEN DefaultEase ELSE card.easeFactor
Sm2Interval(card) == IF Falsy(card, "interval") THEN 1 ELSE card.interval
Sm2Repetitions(card) == IF Falsy(card, "repetitions") THEN 0 ELSE card.repetitions

\* The interval of a passing review.
PassInterval_StaleEase(reps, interval, ease, g) ==
    IF reps = 0 THEN 1
    ELSE IF reps = 1 THEN 6
    ELSE MathRound100(interval * Max(MinEase, ease + (10 - (5 - g) * (8 + (5 - g) * 2))))

PassInterval_Swapped(reps, interval, ease, g) ==
    IF reps = 0 THEN 6
    ELSE IF reps = 1 THEN 1
    ELSE MathRound100(interval * ease)

PassInterval(reps, interval, ease, g) ==
    IF reps = 0 THEN 1
    ELSE IF reps = 1 THEN 6
    ELSE MathRound100(interval * ease)

\* The ease factor of a passing review.
PassEase_NoFloor(ease, g) ==
    ease + (10 - (5 - g) * (8 + (5 - g) * 2))

PassEase(ease, g) ==
    Max(MinEase, ease + (10 - (5 - g) * (8 + (5 - g) * 2)))

\* The failing branch (clampedGrade < 3).
FailReview_KeepsProgress(reps, interval, ease) ==
    [repetitions |-> reps, interval |-> interval, easeFactor |-> ease]

FailReview(reps, interval, ease) ==
    [repetitions |-> 0, interval |-> 1, easeFactor |-> ease]

PassReview(reps, interval, ease, g) ==
    [repetitions |-> reps + 1,
     interval |-> PassInterval(reps, interval, ease, g),
     easeFactor |-> PassEase(ease, g)]

applySm2Review_AdjustsOnFail(card, grade, t) ==
    LET g == ClampGrade(grade)
        e0 == Sm2Ease(card)
        i0 == Sm2Interval(card)
        r0 == Sm2Repetitions(card)
        u == IF g < PassingGrade
             THEN [FailReview(r0, i0, e0) EXCEPT !.easeFactor = PassEase(e0, g)]
             ELSE PassReview(r0, i0, e0, g)
        c1 == Put(Put(Put(card, "easeFactor", u.easeFactor), "interval", u.interval),
                  "repetitions", u.repetitions)
        c2 == Put(c1, "dueDate", t + u.interval * TicksPerDay)
    IN Put(Put(c2, "lastReviewedAt", t), "lastGrade", g)

applySm2Review(card, grade, t) ==
    LET g == ClampGrade(grade)
        e0 == Sm2Ease(card)
        i0 == Sm2Interval(card)
        r0 == Sm2Repetitions(card)
        u == IF g < PassingGrade THEN FailReview(r0, i0, e0) ELSE PassReview(r0, i0, e0, g)
        c1 == Put(Put(Put(card, "easeFactor", u.easeFactor), "interval", u.interval),
                  "repetitions", u.repetitions)
        c2 == Put(c1, "dueDate", t + u.interval * TicksPerDay)
    IN Put(Put(c2, "lastReviewedAt", t), "lastGrade", g)

\* new Date(card.dueDate) <= new Date(), or no dueDate
isCardDue_Strict(card, t) == ~Has(card, "dueDate") \/ card.dueDate < t

isCardDue(card, t) == ~Has(card, "dueDate") \/ card.dueDate <= t

----------------------------------------------------------------------------
(* Content chunker (lib/content-chunker.js).  A text is the record         *)
(* [string, id, lead, len, trail]: lead white-space characters, then len   *)
(* characters that sanitiseText keeps (the i-th of them is character i of  *)
(* the text id), then trail white-space characters; string is FALSE for a  *)
(* value that is not a string.  A slice of a text is [id, from, to].       *)

DEFAULT_CHUNK_SIZE == 900
MaxSources == 3

RawText(id, lead, len, trail) ==
    [string |-> TRUE, id |-> id, lead |-> lead, len |-> len, trail |-> trail]

EmptyText == RawText(<<"empty", 0>>, 0, 0, 0)
NotAString == [string |-> FALSE, id |-> <<"number", 0>>, lead |-> 0, len |-> 1, trail |-> 0]

\* !text
IsEmptyText(text) == text.string /\ text.lead + text.len + text.trail = 0

\* text.replace(/\s+/g, ' ').trim(): the white space at both ends goes
sanitiseText(text) == [text EXCEPT !.lead = 0, !.trail = 0]

\* text.slice(from, to)
Slice(text, from, to) ==
    [id |-> text.id, from |-> Min(from, text.len), to |-> Min(to, text.len)]

RECURSIVE splitFrom(_, _, _)
splitFrom(text, chunkSize, cursor) ==
    IF cursor < text.len
    THEN <<Slice(text, cursor, cursor + chunkSize)>>
         \o splitFrom(text, chunkSize, cursor + chunkSize)
    ELSE <<>>

\* Only the windows that are full.
splitIntoChunks_DropsTail(text, chunkSize) ==
    [i \in 1..(text.len \div chunkSize) |->
        Slice(text, (i - 1) * chunkSize, i * chunkSize)]

splitIntoChunks(text, chunkSize) == splitFrom(text, chunkSize, 0)

\* The texts of the sources: white space only, one character between white
\* space, and lengths around one and two windows.
TextLengths ==
    {1, DEFAULT_CHUNK_SIZE - 1, DEFAULT_CHUNK_SIZE, DEFAULT_CHUNK_SIZE + 1,
     2 * DEFAULT_CHUNK_SIZE, 2 * DEFAULT_CHUNK_SIZE + 1}

TextSources ==
    { [type |-> "text", label |-> <<"note", n>>, value |-> RawText(<<"note", n>>, 0, n, 0)] :
        n \in TextLengths }
    \cup { [type |-> "text", label |-> <<"note", 0>>, value |-> EmptyText],
           [type |-> "text", label |-> <<"blank", 0>>,
            value |-> RawText(<<"blank", 0>>, 3, 0, 0)],
           [type |-> "text", label |-> <<"padded", 1>>,
            value |-> RawText(<<"padded", 1>>, 2, 1, 1)],
           [type |-> "text", label |-> <<"number", 0>>, value |-> NotAString] }

UrlSources ==
    { [type |-> "url", label |-> <<"page", 0>>,
       value |-> RawText(<<"page", 0>>, 1, DEFAULT_CHUNK_SIZE + 1, 1)] }

\* An uploaded file: content a string (the base64 of a text, or no base64 at
\* all), an ArrayBuffer, or something else.  value is what the content
\* resolves to: the decoded text or, for no base64, the content as it is stored.
FileContents == {"base64", "notBase64", "arrayBuffer", "other"}

FileSources ==
    { [type |-> "file", label |-> <<k, 0>>, content |-> k,
       value |-> IF k = "notBase64" THEN RawText(<<"stored", 0>>, 0, 4, 0)
                 ELSE RawText(<<"decoded", 0>>, 0, 3, 0)] :
        k \in FileContents }

SourceInputs == TextSources \cup UrlSources \cup FileSources

\* How the fetch of a URL source ends.
FetchOutcomes(source) ==
    IF source.type = "url" THEN {"ok", "networkError", "httpError", "bodyError"}
    ELSE {"none"}

\* The text the markup leaves.
stripHtml(html) == html

resolveSourceText_SkipsUndecodable(source, fetched) ==
    CASE source.type = "text" -> source.value
      [] source.type = "url" -> IF fetched = "ok" THEN stripHtml(source.value) ELSE EmptyText
      [] source.type = "file" ->
            IF source.content \in {"base64", "arrayBuffer"}
            THEN source.value ELSE EmptyText

resolveSourceText(source, fetched) ==
    CASE source.type = "text" -> source.value
      [] source.type = "url" -> IF fetched = "ok" THEN stripHtml(source.value) ELSE EmptyText
      [] source.type = "file" ->
            IF source.content \in {"base64", "notBase64", "arrayBuffer"}
            THEN source.value ELSE EmptyText

\* splitIntoChunks(clean, DEFAULT_CHUNK_SIZE).map((chunk, index) => ({...}))
chunkSet(source, clean) ==
    LET pieces == splitIntoChunks(clean, DEFAULT_CHUNK_SIZE)
    IN [i \in 1..Len(pieces) |->
          [id |-> <<source.label, i - 1>>, text |-> pieces[i],
           sourceTitle |-> source.label, reference |-> source.label]]

\* log records, per source processed, how its fetch ended and the length the
\* chunk list had after it.
IdleChunker == [pc |-> "idle", sources |-> <<>>, k |-> 0, chunks |-> <<>>, log |-> <<>>]

----------------------------------------------------------------------------
(* Data of the service worker (background/service-worker.js).              *)

Runs == 1..MaxRuns

Null == <<>>
Key(d) == <<d>>
\* new Date().toISOString().slice(0, 10)
TodayKey(t) == Key(DayOf(t))

Backends == {"gemini", "ollama", "promptApi"}
DefaultBackendPreference == <<"gemini", "ollama", "promptApi">>

\* Question texts: what a model may write, and the three synthetic ones.
Question(kind, i) == <<kind, i>>
ModelQuestions == {Question("model", 1), Question("model", 2)}
OfflineQuestion == Question("offline-self-check", 0)
TopicQuestion == Question("fallback-topic", 0)
GenericQuestion == Question("fallback-learning-science", 0)

Candidate(q) == [question |-> q]

defaultStats ==
    [streak |-> 0, lastLessonDate |-> Null, totalLessons |-> 0,
     totalFlashcardsReviewed |-> 0]

\* The text a backend answers with: JSON or not, the number of summary bullets
\* it holds (0: missing or empty) and its flashcards array (<<>>: missing or empty).
\* A flashcard of the answer may carry more than {question, answer}: the
\* connectors hand the parsed objects on as they are.
Payloads ==
    { [json |-> TRUE, summary |-> 3, flashcards |-> <<Candidate(Question("model", 1))>>],
      [json |-> TRUE, summary |-> 3,
       flashcards |-> <<[question |-> Question("model", 1), interval |-> 0,
                         easeFactor |-> 0]>>],
      [json |-> TRUE, summary |-> 0, flashcards |-> <<>>],
      [json |-> FALSE, summary |-> 0, flashcards |-> <<>>] }

NoPayload == [json |-> FALSE, summary |-> 0, flashcards |-> <<>>]

\* What one attempt on a backend meets: the ways the connector's calls end.
OutcomeKinds(backend) ==
    CASE backend = "gemini" -> {"noKey", "httpError", "noContent", "text"}
      [] backend = "ollama" -> {"httpError", "noText", "text"}
      [] backend = "promptApi" ->
            {"unavailable", "queryThrows", "unavailableOnRecheck", "createFails",
             "promptFails", "text"}

Outcomes(backend, payloads) ==
    { [kind |-> k, payload |-> NoPayload] : k \in OutcomeKinds(backend) \ {"text"} }
    \cup { [kind |-> "text", payload |-> p] : p \in payloads }

\* The answers the pipeline's runs are explored with.
PipelinePayloads == { p \in Payloads : p.json => p.summary > 0 }

\* The pipeline's runs are explored with these answers and, of the ways a
\* connector's calls fail, the first one of each backend.
PipelineOutcomes(backend) ==
    { o \in Outcomes(backend, PipelinePayloads) :
        o.kind \in {"text", "noKey", "httpError", "unavailable"} /\
        (backend = "gemini" => o.kind # "httpError") }

AllOutcomes(backend) == Outcomes(backend, Payloads)

----------------------------------------------------------------------------
(* Backend connectors.                                                     *)

generateFallbackFlashcards(context) == <<Candidate(TopicQuestion)>>

\* The heuristic parser: first line the title, the next lines the summary.
fallbackParser(payload) ==
    [summary |-> payload.summary, flashcards |-> <<Candidate(GenericQuestion)>>]

\* lib/llm-gemini.js: JSON.parse, else the heuristic parser; then back-filling.
normaliseModelOutput(payload, context, title) ==
    LET parsed == IF payload.json
                  THEN [summary |-> payload.summary, flashcards |-> payload.flashcards]
                  ELSE fallbackParser(payload)
    IN [title |-> title,
        summary |-> IF parsed.summary > 0 THEN parsed.summary ELSE 1,
        flashcards |-> IF Len(parsed.flashcards) > 0 THEN parsed.flashcards
                       ELSE generateFallbackFlashcards(context)]

\* lib/llm-ollama.js: JSON.parse throws on text that is not JSON; no back-filling
\* of summary or flashcards.
normaliseOutput(payload, context, title) ==
    [title |-> title, summary |-> payload.summary, flashcards |-> payload.flashcards]

\* What the attempt met, as its error message or its parse tells it apart.
Met(outcome) ==
    IF outcome.kind # "text" THEN outcome.kind
    ELSE IF outcome.payload.json THEN "json" ELSE "notJson"

\* Whether the attempt issues its network request: the cloud connector is called
\* only with a key, the local-server connector always fetches, the on-device
\* connector never does.
NetworkRequest_Always(backend, outcome) == backend # "promptApi"

NetworkRequest(backend, outcome) ==
    CASE backend = "gemini" -> outcome.kind # "noKey"
      [] backend = "ollama" -> TRUE
      [] backend = "promptApi" -> FALSE

\* lib/llm-nano.js.  What self.ai.languageModel.capabilities() does at the
\* orchestrator's query and at the connector's own: it reports the model
\* available ("readily", "after-download"), reports "no" (or the API is absent),
\* or throws.
FirstQuery(outcome) ==
    CASE outcome.kind = "unavailable" -> "no"
      [] outcome.kind = "queryThrows" -> "throws"
      [] OTHER -> "available"

SecondQuery(outcome) ==
    IF outcome.kind = "unavailableOnRecheck" THEN "no" ELSE "available"

\* try { return capabilities?.available !== 'no' } catch { return false }
isPromptApiAvailable_ThrowIsAvailable(query) == query # "no"

isPromptApiAvailable(query) == query = "available"

\* Whether the attempt calls self.ai.languageModel.create: past both guards.
SessionCreate(backend, outcome) ==
    /\ backend = "promptApi"
    /\ isPromptApiAvailable(FirstQuery(outcome))
    /\ isPromptApiAvailable(SecondQuery(outcome))

\* Whether the attempt calls session.prompt: create has resolved.
SessionPrompt(backend, outcome) ==
    SessionCreate(backend, outcome) /\ outcome.kind # "createFails"

\* Whether the attempt returns (TRUE) or throws (FALSE).
generateLessonWithGemini_Returns(outcome) == outcome.kind = "text"
generateLessonWithOllama_Returns(outcome) == outcome.kind = "text" /\ outcome.payload.json
generateLessonWithPromptApi_Returns(outcome) == outcome.kind = "text"

BackendReturns(backend, outcome) ==
    CASE backend = "gemini" -> generateLessonWithGemini_Returns(outcome)
      [] backend = "ollama" -> generateLessonWithOllama_Returns(outcome)
      [] backend = "promptApi" -> generateLessonWithPromptApi_Returns(outcome)

BackendResult(backend, outcome, context) ==
    IF backend = "ollama"
    THEN normaliseOutput(outcome.payload, context, backend)
    ELSE normaliseModelOutput(outcome.payload, context, backend)

----------------------------------------------------------------------------
(* Fallback orchestrator.                                                  *)

\* Array.isArray(preferences) && preferences.length ? preferences : default
preferenceOrder(rsettings) ==
    IF Has(rsettings, "backendPreference") /\ Len(rsettings.backendPreference) > 0
    THEN rsettings.backendPreference
    ELSE DefaultBackendPreference

\* The first position >= i of the order that holds a backend the loop body knows
\* (the body does nothing for any other identifier); 0 when there is none.
NextBackend(order, i) ==
    LET known == { j \in i..Len(order) : order[j] \in Backends }
    IN IF known = {} THEN 0 ELSE CHOOSE j \in known : \A k \in known : j <= k

OfflineCardCap == 5

OfflineCards_Uncapped(due) == [i \in 1..Len(due) |-> Candidate(due[i].question)]

\* context.dueFlashcards.slice(0, 5).map(...)
OfflineCards(due) ==
    [i \in 1..Min(OfflineCardCap, Len(due)) |-> Candidate(due[i].question)]

buildOfflineFallbackLesson(context, errors) ==
    LET cards == OfflineCards(context.dueFlashcards)
    IN [title |-> "offline",
        summary |-> 3,
        flashcards |-> IF Len(cards) = 0 THEN <<Candidate(OfflineQuestion)>> ELSE cards]

----------------------------------------------------------------------------
(* Persistence (persistDailyContent, mergeFlashcards, updateStats).        *)

LessonCap == 60

\* seq.slice(-n)
Last_First(seq, n) == SubSeq(seq, 1, Min(n, Len(seq)))

Last(seq, n) == SubSeq(seq, Max(1, Len(seq) - n + 1), Len(seq))

\* [...].sort((a, b) => (a.date > b.date ? 1 : -1)): ascending by date.
SortByDate(seq) ==
    LET rank(i) ==
            Cardinality({ j \in 1..Len(seq) : seq[j].date[1] < seq[i].date[1] })
            + Cardinality({ j \in 1..i : seq[j].date[1] = seq[i].date[1] })
    IN [k \in 1..Len(seq) |-> seq[CHOOSE i \in 1..Len(seq) : rank(i) = k]]

\* Of a lesson record the model keeps the fields the worker reads back.
newLesson(result, todayKey, t) ==
    [id |-> todayKey, date |-> todayKey, title |-> result.title, generatedAt |-> t]

updatedLessons(stored, lesson) ==
    Last(SortByDate(SelectSeq(stored, LAMBDA l : l.date # lesson.date) \o <<lesson>>),
         LessonCap)

\* result.flashcards.map((card, index) => ({ id: `card-${todayKey}-${index}`, ... }))
newCards(result, todayKey, t) ==
    [i \in 1..Len(result.flashcards) |->
        LET card == result.flashcards[i]
        IN [id |-> <<todayKey[1], i - 1>>,
            question |-> card.question,
            sourceLessonId |-> todayKey,
            interval |-> IF Has(card, "interval") THEN card.interval ELSE 1,
            easeFactor |-> IF Has(card, "easeFactor") THEN card.easeFactor ELSE DefaultEase,
            repetitions |-> IF Has(card, "repetitions") THEN card.repetitions ELSE 0,
            dueDate |-> t]]

\* new Map(existing.map((card, index) => [card.question, index])): the last
\* index holding the question; 0 when no existing card holds it.
indexByQuestion(existing, q) ==
    LET hits == { i \in 1..Len(existing) : existing[i].question = q }
    IN IF hits = {} THEN 0 ELSE CHOOSE i \in hits : \A k \in hits : i >= k

refreshCard(old, card) ==
    LET c1 == Put(Put(old, "sourceLessonId", card.sourceLessonId), "interval", card.interval)
        c2 == Put(c1, "easeFactor",
                  IF Falsy(old, "easeFactor") THEN card.easeFactor ELSE old.easeFactor)
        c3 == Put(c2, "repetitions",
                  IF Falsy(old, "repetitions") THEN 0 ELSE old.repetitions)
    IN Put(c3, "dueDate", card.dueDate)

RECURSIVE mergeFrom(_, _, _, _)
mergeFrom(merged, existing, incoming, k) ==
    IF k > Len(incoming) THEN merged
    ELSE LET card == incoming[k]
             index == indexByQuestion(existing, card.question)
         IN IF index # 0
            THEN mergeFrom([merged EXCEPT ![index] = refreshCard(merged[index], card)],
                           existing, incoming, k + 1)
            ELSE mergeFrom(Append(merged, card), existing, incoming, k + 1)

mergeFlashcards(existing, incoming) == mergeFrom(existing, existing, incoming, 1)

\* The days d before whose UTC midnight the browser's time zone set its clocks
\* back (the end of daylight saving time), within the 24 hours before it.
SetBackDays == {1}

\* const yesterday = new Date(todayKey): the UTC midnight of the day;
\* yesterday.setDate(yesterday.getDate() - 1): one calendar day back in LOCAL
\* time, the local wall-clock time kept; toISOString().slice(0, 10): the UTC day
\* of that instant.  Keeping the wall-clock time across a set-back of the clocks
\* moves the instant 25 hours back, into the UTC day before yesterday.
yesterdayKey(todayKey) ==
    IF todayKey[1] \in SetBackDays THEN Key(todayKey[1] - 2) ELSE Key(todayKey[1] - 1)

updateStats(old, todayKey, newCardCount) ==
    LET streak == IF old.lastLessonDate = todayKey THEN old.streak
                  ELSE IF old.lastLessonDate = yesterdayKey(todayKey) THEN old.streak + 1
                  ELSE 1
        u1 == Put(Put(old, "streak", streak), "lastLessonDate", todayKey)
        u2 == Put(u1, "totalLessons", old.totalLessons + 1)
        u3 == Put(u2, "totalFlashcardsReviewed", old.totalFlashcardsReviewed)
    IN Put(u3, "flashcardsGeneratedToday", newCardCount)

\* The four values of the single chrome.storage.local.set call.
persistDailyContent(result, todayKey, snapshot, t) ==
    LET cards == newCards(result, todayKey, t)
    IN [lessons |-> updatedLessons(snapshot.lessons, newLesson(result, todayKey, t)),
        flashcards |-> mergeFlashcards(snapshot.flashcards, cards),
        stats |-> updateStats(snapshot.stats, todayKey, Len(cards)),
        lastGenerated |-> todayKey]

----------------------------------------------------------------------------
(* The listeners' invocations.  A slot of runs holds the locals of one     *)
(* invocation of onStartup, onAlarm or the generateNow message handler and *)
(* pc names the await it is suspended at:                                  *)
(*   startup       maybeCatchUpOnMissedLessons: getFromStorage(marker)     *)
(*   read          runDailyLessonPipeline: Promise.all(settings, marker)   *)
(*   context       prepareGenerationContext: Promise.all(lessons, cards),  *)
(*                 chunkSources                                            *)
(*   backend       executeWithFallback: the connector of order[index]      *)
(*   persistRead   persistDailyContent: Promise.all(lessons, cards, stats) *)
(*   persistWrite  persistDailyContent: chrome.storage.local.set           *)
(*   notifyReady   chrome.notifications.create('learnpulse-daily-ready')   *)
(*   notifyError   chrome.notifications.create('learnpulse-daily-error')   *)
(*   done          the listener has returned                               *)
(* attempts, notified and wrote record the calls the invocation has made;  *)
(* context, result and snapshot are dropped once the write has used them.  *)

NoContext == [dueFlashcards |-> <<>>, curatedChunks |-> 0]
NoResult == [title |-> "none", summary |-> 0, flashcards |-> <<>>]
NoSnapshot == [lessons |-> <<>>, flashcards |-> <<>>, stats |-> defaultStats]

IdleRun ==
    [pc |-> "idle", trigger |-> "none", settings |-> <<>>, lastGenerated |-> Null,
     todayKey |-> Null, context |-> NoContext, index |-> 0, errors |-> <<>>,
     result |-> NoResult, snapshot |-> NoSnapshot, error |-> "none",
     attempts |-> <<>>, notified |-> <<>>, wrote |-> FALSE,
     incoming |-> <<>>, when |-> 0, computedAt |-> 0]

InFlight(r) == runs[r].pc \notin {"idle", "done"}

\* The model stops admitting runs once MaxLessons generations are stored or under way.
CanStart ==
    stats.totalLessons + Cardinality({ r \in Runs : InFlight(r) }) < MaxLessons

Begin(r, pc0, trigger) ==
    /\ runs[r].pc = "idle"
    /\ CanStart
    /\ runs' = [runs EXCEPT ![r] = [IdleRun EXCEPT !.pc = pc0, !.trigger = trigger]]
    /\ UNCHANGED <<now, settings, lessons, flashcards, stats, lastGenerated, grader,
                   srsCard, srsLog, alarms, chunker>>

OnlyRun(r, rv) ==
    /\ runs' = [runs EXCEPT ![r] = rv]
    /\ UNCHANGED <<now, settings, lessons, flashcards, stats, lastGenerated, grader,
                   srsCard, srsLog, alarms, chunker>>

\* chrome.runtime.onStartup (ensureDailyAlarm aside)
onStartup(r) == Begin(r, "startup", "catchup")

\* chrome.alarms.onAlarm, alarm.name = 'learnpulse-daily'
onAlarm(r) == Begin(r, "read", "scheduled")

\* chrome.runtime.onMessage, type 'learnpulse:generateNow'
onGenerateNow(r) == Begin(r, "read", "manual")

\* Math.floor((today - last) / (1000 * 60 * 60 * 24)), last the marker's midnight
diffDays(marker, t) == (t - marker[1] * TicksPerDay) \div TicksPerDay

maybeCatchUpOnMissedLessons(r) ==
    /\ runs[r].pc = "startup"
    /\ OnlyRun(r, [runs[r] EXCEPT
            !.pc = IF lastGenerated # Null /\ diffDays(lastGenerated, now) >= 1
                   THEN "read" ELSE "done"])

\* lastGenerated === todayKey && triggerSource === 'scheduled'
Suppressed_Never(marker, todayKey, trigger) == FALSE

Suppressed(marker, todayKey, trigger) == marker = todayKey /\ trigger = "scheduled"

runDailyLessonPipeline(r) ==
    /\ runs[r].pc = "read"
    /\ LET todayKey == TodayKey(now)
       IN OnlyRun(r, [runs[r] EXCEPT
            !.settings = settings,
            !.lastGenerated = lastGenerated,
            !.todayKey = todayKey,
            !.pc = IF Suppressed(lastGenerated, todayKey, runs[r].trigger)
                   THEN "done" ELSE "context"])

\* flashcards.filter((card) => !dueDate || dueDate <= new Date()); of a due card
\* the connectors and the offline lesson read the question and the answer only.
dueFlashcards(cards, t) ==
    LET due == SelectSeq(cards, LAMBDA card : isCardDue(card, t))
    IN [i \in 1..Len(due) |-> Candidate(due[i].question)]

\* The state an attempt's failure, or the start of the loop, leaves the run in:
\* suspended at the next backend from position i on, or, past the end of the
\* list, holding the offline lesson and reading storage for persistence.
ContinueFrom(rv, i) ==
    LET j == NextBackend(preferenceOrder(rv.settings), i)
    IN IF j = 0
       THEN [rv EXCEPT !.pc = "persistRead", !.index = 0,
                       !.result = buildOfflineFallbackLesson(rv.context, rv.errors)]
       ELSE [rv EXCEPT !.pc = "backend", !.index = j]

\* settings.mode === 'curated' && !curatedChunks.length
CuratedEmpty_Ignored(mode, chunks) == FALSE

CuratedEmpty(mode, chunks) == mode = "curated" /\ chunks = 0

MaxChunks == 1

prepareGenerationContext(r) ==
    /\ runs[r].pc = "context"
    /\ \E chunks \in 0..MaxChunks :
        /\ runs[r].settings.mode # "curated" => chunks = 0
        /\ LET context == [dueFlashcards |-> dueFlashcards(flashcards, now),
                           curatedChunks |-> chunks]
               rv == [runs[r] EXCEPT !.context = context]
           IN OnlyRun(r, IF CuratedEmpty(rv.settings.mode, chunks)
                         THEN [rv EXCEPT !.error = "curatedEmpty", !.pc = "notifyError"]
                         ELSE ContinueFrom(rv, 1))

\* One pass of the loop body for the backend at order[index], from the call of
\* its connector to its return or to the catch.
AttemptStep_NoEarlyReturn(rv, outcome) ==
    LET backend == preferenceOrder(rv.settings)[rv.index]
        logged == [rv EXCEPT !.attempts = Append(@,
                      [backend |-> backend, index |-> rv.index,
                       returned |-> BackendReturns(backend, outcome),
                       met |-> Met(outcome),
                       fetched |-> NetworkRequest(backend, outcome),
                       created |-> SessionCreate(backend, outcome),
                       prompted |-> SessionPrompt(backend, outcome)])]
    IN ContinueFrom(logged, rv.index + 1)

AttemptStep(rv, outcome) ==
    LET backend == preferenceOrder(rv.settings)[rv.index]
        returned == BackendReturns(backend, outcome)
        logged == [rv EXCEPT !.attempts = Append(@,
                      [backend |-> backend, index |-> rv.index, returned |-> returned,
                       met |-> Met(outcome),
                       fetched |-> NetworkRequest(backend, outcome),
                       created |-> SessionCreate(backend, outcome),
                       prompted |-> SessionPrompt(backend, outcome)])]
    IN IF returned
       THEN [logged EXCEPT !.pc = "persistRead",
                           !.result = BackendResult(backend, outcome, rv.context)]
       ELSE ContinueFrom([logged EXCEPT
                            !.errors = Append(@, [backend |-> backend,
                                                  error |-> Met(outcome)])],
                         rv.index + 1)

\* all: every way the attempt may end, or those the pipeline is explored with.
Attempt(r, all) ==
    /\ runs[r].pc = "backend"
    /\ LET backend == preferenceOrder(runs[r].settings)[runs[r].index]
       IN \E outcome \in IF all THEN AllOutcomes(backend) ELSE PipelineOutcomes(backend) :
            OnlyRun(r, AttemptStep(runs[r], outcome))

executeWithFallback(r) == Attempt(r, FALSE)

persistDailyContent_Read(r) ==
    /\ runs[r].pc = "persistRead"
    /\ OnlyRun(r, [runs[r] EXCEPT
            !.snapshot = [lessons |-> lessons, flashcards |-> flashcards, stats |-> stats],
            !.pc = "persistWrite"])

persistDailyContent_Write(r) ==
    /\ runs[r].pc = "persistWrite"
    /\ LET rv == runs[r]
           out == persistDailyContent(rv.result, rv.todayKey, rv.snapshot, now)
       IN /\ lessons' = out.lessons
          /\ flashcards' = out.flashcards
          /\ stats' = out.stats
          /\ lastGenerated' = out.lastGenerated
          /\ runs' = [runs EXCEPT ![r] = [rv EXCEPT
                !.wrote = TRUE,
                !.context = [@ EXCEPT !.dueFlashcards = <<>>],
                !.result = NoResult, !.snapshot = NoSnapshot,
                !.pc = IF rv.settings.notificationsEnabled THEN "notifyReady" ELSE "done"]]
    /\ UNCHANGED <<now, settings, grader, srsCard, srsLog, alarms, chunker>>

\* The create call resolves (shown) or rejects; a rejection inside the try is caught.
notifyReady(r) ==
    /\ runs[r].pc = "notifyReady"
    /\ \E shown \in BOOLEAN :
        OnlyRun(r, [runs[r] EXCEPT
            !.notified = Append(@, "learnpulse-daily-ready"),
            !.error = IF shown THEN @ ELSE "notification",
            !.pc = IF shown THEN "done" ELSE "notifyError"])

notifyError(r) ==
    /\ runs[r].pc = "notifyError"
    /\ OnlyRun(r, [runs[r] EXCEPT
            !.notified = Append(@, "learnpulse-daily-error"),
            !.pc = "done"])

\* The listener's promise has settled; its slot is free for the next event.
Return(r) ==
    /\ runs[r].pc = "done"
    /\ OnlyRun(r, IdleRun)

----------------------------------------------------------------------------
(* Grading (the gradeFlashcard message and gradeFlashcard).  pc names the  *)
(* await: getCards, getStats, write (chrome.storage.local.set), done.      *)

IdleGrader ==
    [pc |-> "idle", cardId |-> <<0, 0>>, grade |-> 0, flashcards |-> <<>>,
     stats |-> defaultStats, found |-> FALSE]

UnknownCardId == <<0 - 1, 0>>

\* The grades the popup's buttons send.
Grades == 0..5

OnlyGrader(g) ==
    /\ grader' = g
    /\ UNCHANGED <<now, settings, lessons, flashcards, stats, lastGenerated, runs,
                   srsCard, srsLog, alarms, chunker>>

\* chrome.runtime.onMessage, type 'learnpulse:gradeFlashcard'
onGradeFlashcard ==
    /\ grader.pc = "idle"
    /\ stats.totalFlashcardsReviewed < MaxReviewed
    /\ \E cardId \in { flashcards[i].id : i \in 1..Len(flashcards) } \cup {UnknownCardId},
          grade \in {2, 5} :
        OnlyGrader([IdleGrader EXCEPT !.pc = "getCards", !.cardId = cardId,
                                      !.grade = grade])

gradeFlashcard_GetCards ==
    /\ grader.pc = "getCards"
    /\ OnlyGrader([grader EXCEPT !.flashcards = flashcards, !.pc = "getStats"])

\* flashcards.findIndex((card) => card.id === cardId); 0 stands for -1
findIndex_OrFirst(cards, cardId) ==
    LET hits == { i \in 1..Len(cards) : cards[i].id = cardId }
    IN IF hits = {} THEN Min(1, Len(cards)) ELSE CHOOSE i \in hits : \A k \in hits : i <= k

findIndex(cards, cardId) ==
    LET hits == { i \in 1..Len(cards) : cards[i].id = cardId }
    IN IF hits = {} THEN 0 ELSE CHOOSE i \in hits : \A k \in hits : i <= k

gradeFlashcard_GetStats ==
    /\ grader.pc = "getStats"
    /\ LET index == findIndex(grader.flashcards, grader.cardId)
       IN OnlyGrader([grader EXCEPT !.stats = stats, !.found = index # 0,
                                    !.pc = IF index = 0 THEN "done" ELSE "write"])

gradeFlashcard_Write ==
    /\ grader.pc = "write"
    /\ LET index == findIndex(grader.flashcards, grader.cardId)
       IN /\ flashcards' = [grader.flashcards EXCEPT
                               ![index] = applySm2Review(@, grader.grade, now)]
          /\ stats' = Put(grader.stats, "totalFlashcardsReviewed",
                          grader.stats.totalFlashcardsReviewed + 1)
    /\ grader' = [grader EXCEPT !.pc = "done"]
    /\ UNCHANGED <<now, settings, lessons, lastGenerated, runs, srsCard, srsLog, alarms, chunker>>

\* sendResponse({ success: true })
gradeFlashcard_Respond ==
    /\ grader.pc = "done"
    /\ OnlyGrader(IdleGrader)

----------------------------------------------------------------------------
(* The clock.                                                              *)

Tick ==
    /\ now < MaxNow
    /\ now' = now + 1
    /\ UNCHANGED <<settings, lessons, flashcards, stats, lastGenerated, runs, grader,
                   srsCard, srsLog, alarms, chunker>>

----------------------------------------------------------------------------
(* The service worker: storage as initialiseDefaults leaves it on install, *)
(* settings as the options page or an updateSettings message saved them.   *)

SettingsInputs ==
    { [mode |-> m, notificationsEnabled |-> n, backendPreference |-> p] :
        m \in {"autonomous", "curated"}, n \in BOOLEAN,
        p \in { <<"ollama", "bogus", "gemini">> } }

Init ==
    /\ now = 0
    /\ settings \in SettingsInputs
    /\ lessons = <<>>
    /\ flashcards = <<>>
    /\ stats = defaultStats
    /\ lastGenerated = Null
    /\ runs = [r \in Runs |-> IdleRun]
    /\ grader = IdleGrader
    /\ srsCard = <<>>
    /\ srsLog = <<>>
    /\ alarms = {}
    /\ chunker = IdleChunker

Next ==
    \/ Tick
    \/ \E r \in Runs :
        \/ onStartup(r)
        \/ onAlarm(r)
        \/ onGenerateNow(r)
        \/ maybeCatchUpOnMissedLessons(r)
        \/ runDailyLessonPipeline(r)
        \/ prepareGenerationContext(r)
        \/ executeWithFallback(r)
        \/ persistDailyContent_Read(r)
        \/ persistDailyContent_Write(r)
        \/ notifyReady(r)
        \/ notifyError(r)
        \/ Return(r)

Spec == Init /\ [][Next]_vars

\* The pipeline with one invocation and gradings beside it.
NextGrading ==
    \/ Tick
    \/ onAlarm(1)
    \/ onGenerateNow(1)
    \/ runDailyLessonPipeline(1)
    \/ prepareGenerationContext(1)
    \/ executeWithFallback(1)
    \/ persistDailyContent_Read(1)
    \/ persistDailyContent_Write(1)
    \/ notifyReady(1)
    \/ notifyError(1)
    \/ Return(1)
    \/ onGradeFlashcard
    \/ gradeFlashcard_GetCards
    \/ gradeFlashcard_GetStats
    \/ gradeFlashcard_Write
    \/ gradeFlashcard_Respond

SpecGrading == Init /\ [][NextGrading]_vars

----------------------------------------------------------------------------
(* The orchestrator alone: executeWithFallback called with every           *)
(* preference list of at most MaxPreferences identifiers (or none) and a   *)
(* context of 0..MaxDue due cards.                                         *)

PreferenceLists ==
    UNION { [1..n -> Backends \cup {"bogus"}] : n \in 0..MaxPreferences }

OrchestratorSettings ==
    { [mode |-> "autonomous", notificationsEnabled |-> TRUE, backendPreference |-> p] :
        p \in PreferenceLists }
    \cup { [mode |-> "autonomous", notificationsEnabled |-> TRUE] }

DueCards(n) == [i \in 1..n |-> Candidate(Question("due", i))]

InitOrchestrator ==
    /\ now = 0
    /\ settings \in OrchestratorSettings
    /\ lessons = <<>>
    /\ flashcards = <<>>
    /\ stats = defaultStats
    /\ lastGenerated = Null
    /\ \E n \in 0..MaxDue :
        runs = [r \in Runs |->
                  IF r = 1
                  THEN ContinueFrom([IdleRun EXCEPT
                          !.trigger = "manual", !.settings = settings,
                          !.todayKey = TodayKey(now),
                          !.context = [dueFlashcards |-> DueCards(n), curatedChunks |-> 0]],
                        1)
                  ELSE IdleRun]
    /\ grader = IdleGrader
    /\ srsCard = <<>>
    /\ srsLog = <<>>
    /\ alarms = {}
    /\ chunker = IdleChunker

executeWithFallback_Call == Attempt(1, TRUE)

NextOrchestrator == executeWithFallback_Call

SpecOrchestrator == InitOrchestrator /\ [][NextOrchestrator]_vars

----------------------------------------------------------------------------
(* The SM-2 engine alone: applySm2Review applied, up to MaxReviews times,  *)
(* to cards with every combination of present, zero and missing fields.    *)

EaseInputs == {0, 100, 130, 200, 250}
IntervalInputs == {0, 1, 6}
RepetitionInputs == {0, 1, 2, 3}

\* A card holding the fields whose value is not -1.
CardOf(e, i, r) ==
    LET present == (IF e >= 0 THEN {"easeFactor"} ELSE {})
                   \cup (IF i >= 0 THEN {"interval"} ELSE {})
                   \cup (IF r >= 0 THEN {"repetitions"} ELSE {})
    IN [f \in present |->
          CASE f = "easeFactor" -> e [] f = "interval" -> i [] f = "repetitions" -> r]

Sm2Cards ==
    { CardOf(e, i, r) : e \in EaseInputs \cup {0 - 1}, i \in IntervalInputs \cup {0 - 1},
                        r \in RepetitionInputs \cup {0 - 1} }

InitSm2 ==
    /\ now = 0
    /\ settings = [mode |-> "autonomous", notificationsEnabled |-> TRUE]
    /\ lessons = <<>>
    /\ flashcards = <<>>
    /\ stats = defaultStats
    /\ lastGenerated = Null
    /\ runs = [r \in Runs |-> IdleRun]
    /\ grader = IdleGrader
    /\ srsCard \in Sm2Cards
    /\ srsLog = <<>>
    /\ alarms = {}
    /\ chunker = IdleChunker

Review ==
    /\ Len(srsLog) < MaxReviews
    /\ \E grade \in Grades :
        /\ srsCard' = applySm2Review(srsCard, grade, now)
        /\ srsLog' = Append(srsLog, [prior |-> srsCard, grade |-> grade])
    /\ UNCHANGED <<now, settings, lessons, flashcards, stats, lastGenerated, runs, grader, alarms, chunker>>

NextSm2 == Review

SpecSm2 == InitSm2 /\ [][NextSm2]_vars

\* The card the n-th review returned.
Reviewed(n) == IF n < Len(srsLog) THEN srsLog[n + 1].prior ELSE srsCard

\* The same engine called with grades a caller other than the popup may pass:
\* integers below 0 and above 5 as well as those between.
GradeInputs == (0 - 2)..7

applySm2Review_Call ==
    /\ Len(srsLog) < MaxReviews
    /\ \E grade \in GradeInputs :
        /\ srsCard' = applySm2Review(srsCard, grade, now)
        /\ srsLog' = Append(srsLog, [prior |-> srsCard, grade |-> grade])
    /\ UNCHANGED <<now, settings, lessons, flashcards, stats, lastGenerated, runs, grader,
                   alarms, chunker>>

NextAnyGrade == applySm2Review_Call

SpecAnyGrade == InitSm2 /\ [][NextAnyGrade]_vars

----------------------------------------------------------------------------
(* Persistence alone: persistDailyContent applied, one call after another, *)
(* to stores that hold a history of daily lessons for the days before day  *)
(* 0: none, one, or enough to stand at the cap.  runs[1] keeps the         *)
(* arguments of the last call.                                             *)

HistoryLengths == {0, 1, LessonCap - 1, LessonCap}

History(n) == [i \in 1..n |-> [id |-> Key(i - n - 1), date |-> Key(i - n - 1),
                                title |-> "history",
                                generatedAt |-> (i - n - 1) * TicksPerDay]]

HistoryStats(n) ==
    IF n = 0 THEN defaultStats
    ELSE [streak |-> n, lastLessonDate |-> Key(0 - 1), totalLessons |-> n,
          totalFlashcardsReviewed |-> 0, flashcardsGeneratedToday |-> 1]

LessonResults ==
    { [title |-> "gemini", summary |-> 3, flashcards |-> <<Candidate(Question("model", 1))>>],
      buildOfflineFallbackLesson(NoContext, <<>>) }

InitLessons ==
    /\ now = 0
    /\ settings = [mode |-> "autonomous", notificationsEnabled |-> TRUE]
    /\ \E n \in HistoryLengths :
        /\ lessons = History(n)
        /\ stats = HistoryStats(n)
        /\ lastGenerated = IF n = 0 THEN Null ELSE Key(0 - 1)
    /\ flashcards = <<>>
    /\ runs = [r \in Runs |-> IdleRun]
    /\ grader = IdleGrader
    /\ srsCard = <<>>
    /\ srsLog = <<>>
    /\ alarms = {}
    /\ chunker = IdleChunker

persistDailyContent_Call ==
    /\ stats.totalLessons < LessonCap + MaxLessons
    /\ \E result \in LessonResults :
        LET todayKey == TodayKey(now)
            snapshot == [lessons |-> lessons, flashcards |-> flashcards, stats |-> stats]
            out == persistDailyContent(result, todayKey, snapshot, now)
        IN /\ lessons' = out.lessons
           /\ flashcards' = out.flashcards
           /\ stats' = out.stats
           /\ lastGenerated' = out.lastGenerated
           /\ runs' = [runs EXCEPT ![1] = [IdleRun EXCEPT
                    !.result = result, !.todayKey = todayKey, !.wrote = TRUE]]
    /\ UNCHANGED <<now, settings, grader, srsCard, srsLog, alarms, chunker>>

NextLessons == Tick \/ persistDailyContent_Call

SpecLessons == InitLessons /\ [][NextLessons]_vars

----------------------------------------------------------------------------
(* The card list alone: generation results persisted one after another,    *)
(* from empty stores.  A model's answer is parsed and handed on as it is,  *)
(* so its flashcards array may hold one question twice.                    *)

MaxGenerations == 3

RepeatedQuestionResult ==
    [title |-> "gemini", summary |-> 3,
     flashcards |-> <<Candidate(Question("model", 2)), Candidate(Question("model", 2))>>]

CardResults ==
    LessonResults \cup
    { RepeatedQuestionResult,
      [title |-> "gemini", summary |-> 3,
       flashcards |-> <<Candidate(Question("model", 1)), Candidate(Question("model", 2))>>] }

InitCards ==
    /\ now = 0
    /\ settings = [mode |-> "autonomous", notificationsEnabled |-> TRUE]
    /\ lessons = <<>>
    /\ flashcards = <<>>
    /\ stats = defaultStats
    /\ lastGenerated = Null
    /\ runs = [r \in Runs |-> IdleRun]
    /\ grader = IdleGrader
    /\ srsCard = <<>>
    /\ srsLog = <<>>
    /\ alarms = {}
    /\ chunker = IdleChunker

mergeFlashcards_Call ==
    /\ stats.totalLessons < MaxGenerations
    /\ \E result \in CardResults :
        LET todayKey == TodayKey(now)
            snapshot == [lessons |-> lessons, flashcards |-> flashcards, stats |-> stats]
            out == persistDailyContent(result, todayKey, snapshot, now)
        IN /\ lessons' = out.lessons
           /\ flashcards' = out.flashcards
           /\ stats' = out.stats
           /\ lastGenerated' = out.lastGenerated
           /\ runs' = [runs EXCEPT ![1] = [IdleRun EXCEPT
                    !.result = result, !.todayKey = todayKey, !.wrote = TRUE]]
    /\ UNCHANGED <<now, settings, grader, srsCard, srsLog, alarms, chunker>>

NextCards == Tick \/ mergeFlashcards_Call

SpecCards == InitCards /\ [][NextCards]_vars

----------------------------------------------------------------------------
(* isCardDue alone: asked, as the clock moves, about a card that has no    *)
(* dueDate or one before, at or after the present, or the dueDate a review *)
(* gave it.  An answer is logged as [card, at, due].                       *)

DueDateInputs == 0..(MaxNow + 1)

DueCardInputs == {<<>>} \cup { Put(<<>>, "dueDate", d) : d \in DueDateInputs }

InitDue ==
    /\ now = 0
    /\ settings = [mode |-> "autonomous", notificationsEnabled |-> TRUE]
    /\ lessons = <<>>
    /\ flashcards = <<>>
    /\ stats = defaultStats
    /\ lastGenerated = Null
    /\ runs = [r \in Runs |-> IdleRun]
    /\ grader = IdleGrader
    /\ srsCard \in DueCardInputs
    /\ srsLog = <<>>
    /\ alarms = {}
    /\ chunker = IdleChunker

isCardDue_Call ==
    /\ Len(srsLog) < MaxReviews
    /\ srsLog' = Append(srsLog, [card |-> srsCard, at |-> now,
                                 due |-> isCardDue(srsCard, now)])
    /\ UNCHANGED <<now, settings, lessons, flashcards, stats, lastGenerated, runs, grader,
                   srsCard, alarms, chunker>>

NextDue == Tick \/ Review \/ isCardDue_Call

SpecDue == InitDue /\ [][NextDue]_vars

----------------------------------------------------------------------------
(* chunkSources alone: called with every list of at most MaxSources        *)
(* sources; a step is one pass of its loop body.                           *)

SourceLists == UNION { [1..n -> SourceInputs] : n \in 0..MaxSources }

OnlyChunker(c) ==
    /\ chunker' = c
    /\ UNCHANGED <<now, settings, lessons, flashcards, stats, lastGenerated, runs, grader,
                   srsCard, srsLog, alarms>>

chunkSources_Call ==
    /\ chunker.pc = "idle"
    /\ \E sources \in SourceLists :
        OnlyChunker([IdleChunker EXCEPT !.pc = "loop", !.sources = sources, !.k = 1])

\* One pass of the loop body: a source without text is passed over, an
\* exception is caught, the chunks of any other source are pushed.
chunkSources_Source ==
    /\ chunker.pc = "loop"
    /\ chunker.k <= Len(chunker.sources)
    /\ LET source == chunker.sources[chunker.k]
       IN \E fetched \in FetchOutcomes(source) :
            LET text == resolveSourceText(source, fetched)
                pushed == IF IsEmptyText(text) \/ ~text.string THEN <<>>
                          ELSE chunkSet(source, sanitiseText(text))
                chunks == chunker.chunks \o pushed
            IN OnlyChunker([chunker EXCEPT
                    !.chunks = chunks,
                    !.log = Append(@, [fetched |-> fetched, length |-> Len(chunks)]),
                    !.k = @ + 1])

chunkSources_Return ==
    /\ chunker.pc = "loop"
    /\ chunker.k > Len(chunker.sources)
    /\ OnlyChunker([chunker EXCEPT !.pc = "done"])

\* The caller has taken the chunks.
chunkSources_Done ==
    /\ chunker.pc = "done"
    /\ OnlyChunker(IdleChunker)

InitChunker ==
    /\ now = 0
    /\ settings = [mode |-> "curated", notificationsEnabled |-> TRUE]
    /\ lessons = <<>>
    /\ flashcards = <<>>
    /\ stats = defaultStats
    /\ lastGenerated = Null
    /\ runs = [r \in Runs |-> IdleRun]
    /\ grader = IdleGrader
    /\ srsCard = <<>>
    /\ srsLog = <<>>
    /\ alarms = {}
    /\ chunker = IdleChunker

NextChunker ==
    \/ chunkSources_Call
    \/ chunkSources_Source
    \/ chunkSources_Return
    \/ chunkSources_Done

SpecChunker == InitChunker /\ [][NextChunker]_vars

----------------------------------------------------------------------------
(* The daily alarm: ensureDailyAlarm as onInstalled, onStartup and the     *)
(* updateSettings message call it.  Alarm times are in minutes since the   *)
(* start of day 0; the browser's local time is taken to be UTC.  pc names  *)
(* the await an invocation is suspended at:                                *)
(*   saveRead     saveSettings: getFromStorage(settings)                   *)
(*   saveWrite    saveSettings: chrome.storage.local.set                   *)
(*   alarmRead    ensureDailyAlarm: getFromStorage(settings)               *)
(*   alarmClear   ensureDailyAlarm: chrome.alarms.clear                    *)
(*   alarmCreate  ensureDailyAlarm: chrome.alarms.create                   *)
(* computedAt records the moment computeNextOccurrence ran.                *)

MinutesPerDay == 60 * 24

\* new Date().getTime(), in minutes
NowMinutes(t) == t * (MinutesPerDay \div TicksPerDay)

DefaultSchedule == [hour |-> 9, minute |-> 0]

\* The times the options page may save (it saves hour 0 as 9).
ScheduleInputs ==
    { DefaultSchedule, [hour |-> 12, minute |-> 0], [hour |-> 21, minute |-> 30] }

\* next.setHours(hour, minute, 0, 0); if (next <= now) next.setDate(+1)
computeNextOccurrence(hour, minute, t) ==
    LET next == (NowMinutes(t) \div MinutesPerDay) * MinutesPerDay + hour * 60 + minute
    IN IF next <= NowMinutes(t) THEN next + MinutesPerDay ELSE next

DailyAlarm(when) == [name |-> "learnpulse-daily", when |-> when,
                     periodInMinutes |-> MinutesPerDay]

\* chrome.alarms.clear(name)
alarmsClear(registered, name) == { a \in registered : a.name # name }

\* chrome.alarms.create(name, info): an alarm of the same name is replaced
alarmsCreate(registered, alarm) == alarmsClear(registered, alarm.name) \cup {alarm}

BeginHandler(r, pc0, trigger, incoming) ==
    /\ runs[r].pc = "idle"
    /\ OnlyRun(r, [IdleRun EXCEPT !.pc = pc0, !.trigger = trigger, !.incoming = incoming])

\* chrome.runtime.onInstalled (initialiseDefaults has left the settings in place)
onInstalled(r) == BeginHandler(r, "alarmRead", "installed", <<>>)

\* chrome.runtime.onStartup: ensureDailyAlarm, then maybeCatchUpOnMissedLessons
onStartup_Alarm(r) == BeginHandler(r, "alarmRead", "catchup", <<>>)

\* chrome.runtime.onMessage, type 'learnpulse:updateSettings'
onUpdateSettings(r) ==
    \E schedule \in ScheduleInputs :
        BeginHandler(r, "saveRead", "updateSettings", [schedule |-> schedule])

saveSettings_Read(r) ==
    /\ runs[r].pc = "saveRead"
    /\ OnlyRun(r, [runs[r] EXCEPT !.settings = settings, !.pc = "saveWrite"])

\* { ...current, ...incoming, schedule: { ...current.schedule, ...incoming.schedule } }
saveSettings_Write(r) ==
    /\ runs[r].pc = "saveWrite"
    /\ settings' = Put(runs[r].settings, "schedule", runs[r].incoming.schedule)
    /\ runs' = [runs EXCEPT ![r] = [@ EXCEPT !.pc = "alarmRead"]]
    /\ UNCHANGED <<now, lessons, flashcards, stats, lastGenerated, grader, srsCard, srsLog,
                   alarms, chunker>>

ensureDailyAlarm_Read(r) ==
    /\ runs[r].pc = "alarmRead"
    /\ LET schedule == IF Has(settings, "schedule") THEN settings.schedule
                       ELSE DefaultSchedule
       IN OnlyRun(r, [runs[r] EXCEPT
            !.settings = settings,
            !.when = computeNextOccurrence(schedule.hour, schedule.minute, now),
            !.computedAt = NowMinutes(now),
            !.pc = "alarmClear"])

ensureDailyAlarm_Clear(r) ==
    /\ runs[r].pc = "alarmClear"
    /\ alarms' = alarmsClear(alarms, "learnpulse-daily")
    /\ runs' = [runs EXCEPT ![r] = [@ EXCEPT !.pc = "alarmCreate"]]
    /\ UNCHANGED <<now, settings, lessons, flashcards, stats, lastGenerated, grader,
                   srsCard, srsLog, chunker>>

ensureDailyAlarm_Create(r) ==
    /\ runs[r].pc = "alarmCreate"
    /\ alarms' = alarmsCreate(alarms, DailyAlarm(runs[r].when))
    /\ runs' = [runs EXCEPT ![r] = [@ EXCEPT
            !.pc = IF runs[r].trigger = "catchup" THEN "startup" ELSE "done"]]
    /\ UNCHANGED <<now, settings, lessons, flashcards, stats, lastGenerated, grader,
                   srsCard, srsLog, chunker>>

AlarmSettings ==
    [mode |-> "autonomous", notificationsEnabled |-> TRUE,
     backendPreference |-> DefaultBackendPreference, schedule |-> DefaultSchedule]

InitAlarm ==
    /\ now = 0
    /\ settings = AlarmSettings
    /\ lessons = <<>>
    /\ flashcards = <<>>
    /\ stats = defaultStats
    /\ lastGenerated = Null
    /\ runs = [r \in Runs |-> IdleRun]
    /\ grader = IdleGrader
    /\ srsCard = <<>>
    /\ srsLog = <<>>
    /\ alarms = {}
    /\ chunker = IdleChunker

NextAlarm ==
    \/ Tick
    \/ \E r \in Runs :
        \/ onInstalled(r)
        \/ onStartup_Alarm(r)
        \/ onUpdateSettings(r)
        \/ saveSettings_Read(r)
        \/ saveSettings_Write(r)
        \/ ensureDailyAlarm_Read(r)
        \/ ensureDailyAlarm_Clear(r)
        \/ ensureDailyAlarm_Create(r)
        \/ maybeCatchUpOnMissedLessons(r)
        \/ Return(r)

SpecAlarm == InitAlarm /\ [][NextAlarm]_vars

----------------------------------------------------------------------------
(* Properties of the SM-2 engine (checked under SpecSm2).                  *)

Reviews == 1..Len(srsLog)

\* C7: for every card state and every grade below 3, applySm2Review returns a
\* card with repetitions = 0 and interval = 1.
C7_FailingGradeResets ==
    \A n \in Reviews :
        srsLog[n].grade < 3 =>
            /\ Reviewed(n).repetitions = 0
            /\ Reviewed(n).interval = 1

\* The spec's scenario: grade 2 on {interval 6, easeFactor 2.0, repetitions 3}.
C7_Witness ==
    \E n \in Reviews :
        /\ srsLog[n].grade = 2
        /\ srsLog[n].prior = [interval |-> 6, easeFactor |-> 200, repetitions |-> 3]
        /\ Reviewed(n).repetitions = 0
        /\ Reviewed(n).interval = 1

\* C8: for every grade of 3 or more, the interval becomes 1 when the prior
\* repetitions is 0 or missing and 6 when it is 1, whatever the prior interval
\* and easeFactor.
C8_FirstIntervals ==
    \A n \in Reviews :
        LET prior == srsLog[n].prior
        IN srsLog[n].grade >= 3 =>
            /\ (~Has(prior, "repetitions") \/ prior.repetitions = 0)
                    => Reviewed(n).interval = 1
            /\ (Has(prior, "repetitions") /\ prior.repetitions = 1)
                    => Reviewed(n).interval = 6

\* Both cases in one run: a card without repetitions and with interval 6 passes
\* twice; the first review gives interval 1, the second interval 6.
C8_Witness ==
    /\ Len(srsLog) >= 2
    /\ srsLog[1].grade >= 3 /\ srsLog[2].grade >= 3
    /\ ~Has(srsLog[1].prior, "repetitions")
    /\ Has(srsLog[1].prior, "interval") /\ srsLog[1].prior.interval = 6
    /\ Reviewed(1).interval = 1
    /\ Reviewed(1).repetitions = 1
    /\ Reviewed(2).interval = 6

\* C9: for every grade of 3 or more and prior repetitions of 2 or more, the
\* interval becomes the prior interval times the prior easeFactor (both after the
\* lazy defaults, the easeFactor as it was before this review's adjustment),
\* rounded to the nearest integer with halves up, and repetitions grows by 1.
C9_LaterIntervals ==
    \A n \in Reviews :
        LET prior == srsLog[n].prior
            product == Sm2Interval(prior) * Sm2Ease(prior)
        IN (srsLog[n].grade >= 3 /\ Has(prior, "repetitions") /\ prior.repetitions >= 2) =>
            /\ 100 * Reviewed(n).interval <= product + 50
            /\ product + 50 < 100 * Reviewed(n).interval + 100
            /\ Reviewed(n).repetitions = prior.repetitions + 1

\* The spec's scenario: grade 5 on {interval 6, easeFactor 2.5, repetitions 2}
\* gives interval 15, repetitions 3, easeFactor 2.6.
C9_Witness ==
    \E n \in Reviews :
        /\ srsLog[n].grade = 5
        /\ srsLog[n].prior = [interval |-> 6, easeFactor |-> 250, repetitions |-> 2]
        /\ Reviewed(n).interval = 15
        /\ Reviewed(n).repetitions = 3
        /\ Reviewed(n).easeFactor = 260

\* C10: when the first card's easeFactor is at least 1.3 or missing, the
\* easeFactor is at least 1.3 after every review of a sequence of reviews with
\* grades in 0..5.
C10_EaseFloor ==
    LET first == IF Len(srsLog) = 0 THEN srsCard ELSE srsLog[1].prior
    IN (~Has(first, "easeFactor") \/ first.easeFactor >= 130) =>
            \A n \in Reviews : Reviewed(n).easeFactor >= 130

\* The floor at work: grade 3 on easeFactor 1.3 would give 1.16.
C10_Witness ==
    \E n \in Reviews :
        /\ srsLog[n].grade = 3
        /\ Has(srsLog[n].prior, "easeFactor") /\ srsLog[n].prior.easeFactor = 130
        /\ Reviewed(n).easeFactor = 130
        /\ n > 1

----------------------------------------------------------------------------
(* Properties of the orchestrator (checked under SpecOrchestrator).        *)

\* The positions of the preference order that hold a backend.
KnownPositions(rv) ==
    { j \in 1..Len(preferenceOrder(rv.settings)) : preferenceOrder(rv.settings)[j] \in Backends }

AttemptedPositions(rv) == { rv.attempts[n].index : n \in 1..Len(rv.attempts) }

Returned(rv) == rv.pc = "persistRead"

Succeeded(rv) == Len(rv.attempts) > 0 /\ rv.attempts[Len(rv.attempts)].returned

\* C1: executeWithFallback attempts the backends of the list in list order, each
\* at most once; every attempt before the last has failed; it returns as soon as
\* an attempt succeeds, with that backend's result, having attempted exactly the
\* backends up to it; and it returns the offline lesson only after every backend
\* of the list has been attempted and has failed.
C1_FirstSuccessWins ==
    \A r \in Runs :
        LET rv == runs[r]
            att == rv.attempts
            order == preferenceOrder(rv.settings)
        IN rv.pc \in {"backend", "persistRead"} =>
            /\ \A n \in 1..Len(att) : att[n].backend = order[att[n].index]
            /\ \A n \in 1..(Len(att) - 1) :
                    att[n].index < att[n + 1].index /\ ~att[n].returned
            /\ (rv.pc = "backend") =>
                    /\ ~Succeeded(rv)
                    /\ AttemptedPositions(rv) = { j \in KnownPositions(rv) : j < rv.index }
            /\ (Returned(rv) /\ Succeeded(rv)) =>
                    /\ rv.result.title = att[Len(att)].backend
                    /\ AttemptedPositions(rv) =
                            { j \in KnownPositions(rv) : j <= att[Len(att)].index }
            /\ (Returned(rv) /\ ~Succeeded(rv)) =>
                    /\ rv.result.title = "offline"
                    /\ AttemptedPositions(rv) = KnownPositions(rv)

\* [A(fails), B(succeeds), C]: B's result is returned and C is never invoked.
C1_Witness ==
    \E r \in Runs :
        LET rv == runs[r]
        IN /\ Returned(rv)
           /\ Len(rv.attempts) = 2
           /\ ~rv.attempts[1].returned
           /\ rv.attempts[2].returned
           /\ rv.result.title = rv.attempts[2].backend
           /\ \E j \in KnownPositions(rv) : j > rv.attempts[2].index

\* C2: when every backend of the list has failed, the result is the offline
\* lesson and its flashcards are the first min(5, number due) due cards in
\* order, or the one synthetic self-check card when none is due: between 1 and 5.
C2_OfflineFlashcards ==
    \A r \in Runs :
        LET rv == runs[r]
            due == rv.context.dueFlashcards
            cards == rv.result.flashcards
        IN (Returned(rv) /\ ~Succeeded(rv)) =>
            /\ rv.result.title = "offline"
            /\ Len(cards) >= 1 /\ Len(cards) <= 5
            /\ (Len(due) = 0) => cards = <<Candidate(OfflineQuestion)>>
            /\ (Len(due) > 0) =>
                    /\ Len(cards) = Min(5, Len(due))
                    /\ \A i \in 1..Len(cards) : cards[i].question = due[i].question

\* Three backends have failed and six cards are due: five are returned.
C2_Witness ==
    \E r \in Runs :
        LET rv == runs[r]
        IN /\ Returned(rv) /\ ~Succeeded(rv)
           /\ Len(rv.attempts) = 3
           /\ Len(rv.context.dueFlashcards) = 6
           /\ Len(rv.result.flashcards) = 5

----------------------------------------------------------------------------
(* Properties of the pipeline (checked under Spec).                        *)

InPipeline(rv) ==
    rv.pc \in {"read", "context", "backend", "persistRead", "persistWrite",
               "notifyReady", "notifyError"}

\* The run has read the stores, was not suppressed, and has left context building.
PastContext(rv) ==
    /\ rv.todayKey # Null
    /\ rv.pc # "context"
    /\ ~Suppressed(rv.lastGenerated, rv.todayKey, rv.trigger)

HasLessonFor(stored, key) == \E i \in 1..Len(stored) : stored[i].date = key

\* C3: every run with trigger manual or catchup in autonomous mode attempts
\* generation whatever the marker holds, and when it ends the lesson list holds
\* a record for the run's day and the marker equals the run's day.
C3_ManualCatchupEndsWithLesson ==
    [][ \A r \in Runs :
            ( /\ InPipeline(runs[r])
              /\ runs'[r].pc = "done"
              /\ runs'[r].trigger \in {"manual", "catchup"}
              /\ runs'[r].settings.mode = "autonomous" )
            => /\ runs'[r].wrote
               /\ HasLessonFor(lessons', runs'[r].todayKey)
               /\ lastGenerated' = runs'[r].todayKey ]_vars

\* C4: a scheduled run that finds the marker equal to the current day returns at
\* once: it attempts no backend, issues no notification and writes nothing.
C4_ScheduledSameDayNoOp ==
    \A r \in Runs :
        LET rv == runs[r]
        IN ( /\ rv.pc \notin {"idle", "startup", "read"}
             /\ rv.trigger = "scheduled"
             /\ rv.lastGenerated = rv.todayKey )
           => /\ rv.pc = "done"
              /\ rv.attempts = <<>>
              /\ rv.notified = <<>>
              /\ ~rv.wrote

C4_Witness ==
    \E r \in Runs :
        /\ runs[r].pc = "done"
        /\ runs[r].trigger = "scheduled"
        /\ runs[r].lastGenerated = runs[r].todayKey
        /\ lastGenerated = TodayKey(now)
        /\ HasLessonFor(lessons, TodayKey(now))

\* C5: at most one pipeline run is in flight at any time.
C5_OneRunInFlight ==
    Cardinality({ r \in Runs : InPipeline(runs[r]) }) <= 1

\* C6: a run whose context building fails (curated mode, zero chunks), or that
\* catches any other exception before it has written, attempts no backend, writes
\* nothing and goes on to issue the failure notification and nothing else.
C6_FailureBeforePersistence ==
    \A r \in Runs :
        LET rv == runs[r]
        IN /\ ( /\ PastContext(rv)
                /\ rv.settings.mode = "curated"
                /\ rv.context.curatedChunks = 0 )
              => rv.error = "curatedEmpty"
           /\ (rv.error # "none" /\ ~rv.wrote)
              => /\ rv.attempts = <<>>
                 /\ \/ rv.pc = "notifyError" /\ rv.notified = <<>>
                    \/ rv.pc = "done" /\ rv.notified = <<"learnpulse-daily-error">>

\* A curated run without chunks has ended while lessons of an earlier run stand.
C6_Witness ==
    \E r \in Runs :
        /\ runs[r].pc = "done"
        /\ runs[r].error = "curatedEmpty"
        /\ runs[r].notified = <<"learnpulse-daily-error">>
        /\ ~runs[r].wrote
        /\ runs[r].attempts = <<>>

----------------------------------------------------------------------------
(* Properties of the stored flashcards (checked under SpecGrading).        *)

\* C11: in every reachable state, after any sequence of generation runs and
\* gradings, every stored card has easeFactor >= 1.3 and interval >= 1.
C11_StoredCardsValid ==
    \A i \in 1..Len(flashcards) :
        /\ flashcards[i].easeFactor >= MinEase
        /\ flashcards[i].interval >= 1

----------------------------------------------------------------------------
(* Properties of isCardDue (checked under SpecDue).                        *)

DueAnswers == { n \in 1..Len(srsLog) : "due" \in DOMAIN srsLog[n] }

\* C12: isCardDue answers true for a card without dueDate and for a card whose
\* dueDate is at or before the time of asking, and false for a card whose
\* dueDate is after it.
C12_DueAtOrBeforeNow ==
    \A n \in DueAnswers :
        LET card == srsLog[n].card
            at == srsLog[n].at
        IN /\ ~Has(card, "dueDate") => srsLog[n].due
           /\ (Has(card, "dueDate") /\ card.dueDate <= at) => srsLog[n].due
           /\ (Has(card, "dueDate") /\ card.dueDate > at) => ~srsLog[n].due

\* The same card asked about twice: before its dueDate (not due) and at the
\* very tick of its dueDate (due).
C12_Witness ==
    /\ Len(srsLog) = 2
    /\ DueAnswers = {1, 2}
    /\ srsLog[1].card = srsLog[2].card
    /\ Has(srsLog[2].card, "dueDate")
    /\ srsLog[1].at < srsLog[2].card.dueDate /\ ~srsLog[1].due
    /\ srsLog[2].at = srsLog[2].card.dueDate /\ srsLog[2].due

----------------------------------------------------------------------------
(* Properties of persistence (checked under SpecGrading).                  *)

\* The step at which run r's persistDailyContent writes the stores.
WriteStep(r) == runs[r].pc = "persistWrite" /\ runs'[r].wrote

MatchesIn(incoming, card) ==
    { k \in 1..Len(incoming) : incoming[k].question = card.question }

\* C13: when mergeFlashcards receives a new card whose question equals that of
\* an existing card, the existing card keeps its id, repetitions and easeFactor
\* and takes the new card's dueDate, sourceLessonId and interval; an existing card
\* matching no incoming card is left unchanged; the incoming cards matching no
\* existing question are appended, in order, as they are.
C13_MergeRefreshes ==
    [][ \A r \in Runs :
            WriteStep(r) =>
                LET existing == runs[r].snapshot.flashcards
                    incoming == newCards(runs[r].result, runs[r].todayKey, now)
                    merged == flashcards'
                    fresh == SelectSeq(incoming, LAMBDA c : MatchesIn(existing, c) = {})
                IN /\ Len(merged) = Len(existing) + Len(fresh)
                   /\ SubSeq(merged, Len(existing) + 1, Len(merged)) = fresh
                   /\ \A i \in 1..Len(existing) :
                        IF MatchesIn(incoming, existing[i]) = {}
                        THEN merged[i] = existing[i]
                        ELSE /\ merged[i].id = existing[i].id
                             /\ merged[i].question = existing[i].question
                             /\ merged[i].repetitions = existing[i].repetitions
                             /\ merged[i].easeFactor = existing[i].easeFactor
                             /\ \E k \in MatchesIn(incoming, existing[i]) :
                                    /\ merged[i].dueDate = incoming[k].dueDate
                                    /\ merged[i].sourceLessonId = incoming[k].sourceLessonId
                                    /\ merged[i].interval = incoming[k].interval ]_vars

----------------------------------------------------------------------------
(* Properties of the lesson list and the stats (checked under SpecLessons). *)

DatesOf(stored) == { stored[i].date : i \in 1..Len(stored) }

OldestOf(dates) == CHOOSE d \in dates : \A e \in dates : d[1] <= e[1]

\* A step that is a call of persistDailyContent.
CallStep == stats'.totalLessons # stats.totalLessons

\* C14: after any sequence of generations the lesson list has at most 60
\* entries and at most one per day; a generation on a day that has a record
\* replaces it with the later one; and when a 61st distinct day is inserted the
\* entry with the oldest date is the one evicted.
C14_LessonListCapped ==
    [][ CallStep =>
            LET day == runs'[1].todayKey
                before == DatesOf(lessons)
                after == DatesOf(lessons')
            IN /\ Len(lessons') <= 60
               /\ Cardinality(after) = Len(lessons')
               /\ \E i \in 1..Len(lessons') :
                    /\ lessons'[i].date = day
                    /\ lessons'[i].title = runs'[1].result.title
               /\ (day \in before \/ Len(lessons) < 60) => after = before \cup {day}
               /\ (day \notin before /\ Len(lessons) = 60) =>
                    after = (before \cup {day}) \ {OldestOf(before)} ]_vars

\* The list stands at 60 entries after the 61st and 62nd day were inserted: the
\* two oldest days of the history are gone and the newest day is today.
C14_Witness ==
    /\ Len(lessons) = 60
    /\ stats.totalLessons >= 62
    /\ lessons[60].date = TodayKey(now)
    /\ lessons[1].date = Key(DayOf(now) - 59)
    /\ now > 0


\* C15: a persistence for day D sets the streak to the prior streak + 1 when the
\* prior lastLessonDate is the day before D, leaves it unchanged when the prior
\* lastLessonDate is D, and sets it to 1 for every other prior value, null
\* included; lastLessonDate becomes D in all cases.
C15_StreakRule ==
    [][ CallStep =>
            LET day == runs'[1].todayKey
                prior == stats.lastLessonDate
            IN /\ stats'.lastLessonDate = day
               /\ stats'.streak =
                    IF prior = day THEN stats.streak
                    ELSE IF prior = Key(day[1] - 1) THEN stats.streak + 1
                    ELSE 1 ]_vars

----------------------------------------------------------------------------
(* Properties of grading (checked under SpecGrading).                      *)

IdsOf(cards) == { cards[i].id : i \in 1..Len(cards) }

\* A step of the gradeFlashcard invocation after it has read the card list.
GraderStep == grader' # grader /\ grader.pc \in {"getStats", "write", "done"}

\* C16: gradeFlashcard with an identifier that matches no card of the list it
\* read raises no error and writes nothing: it returns without reaching the
\* write, the flashcard list and the stats are unchanged by its steps, and the
\* message is answered with success.
C16_UnknownCardNoOp ==
    [][ (GraderStep /\ grader.cardId \notin IdsOf(grader.flashcards)) =>
            /\ flashcards' = flashcards
            /\ stats' = stats
            /\ grader.pc # "write"
            /\ (grader.pc = "getStats") => (grader'.pc = "done" /\ ~grader'.found)
            /\ (grader.pc = "done") => (ENABLED gradeFlashcard_Respond /\ grader' = IdleGrader)
      ]_vars

\* An unknown identifier was looked up in a list that holds cards, and the
\* invocation has returned.
C16_Witness ==
    /\ grader.pc = "done"
    /\ ~grader.found
    /\ grader.cardId = UnknownCardId
    /\ Len(grader.flashcards) > 0
    /\ grader.flashcards = flashcards


\* The step at which gradeFlashcard writes the stores.
GradeWriteStep == grader.pc = "write" /\ grader'.pc = "done"

\* C17: gradeFlashcard on an existing identifier replaces exactly that card, at
\* its position, with the applySm2Review result and adds exactly 1 to
\* totalFlashcardsReviewed; every other card, the order and length of the list,
\* the lessons, the marker and every other stats field are unchanged.
C17_GradeInPlace ==
    [][ GradeWriteStep =>
            /\ \E i \in 1..Len(flashcards) :
                /\ flashcards[i].id = grader.cardId
                /\ flashcards' = [flashcards EXCEPT
                                    ![i] = applySm2Review(@, grader.grade, now)]
            /\ stats' = [stats EXCEPT !.totalFlashcardsReviewed = @ + 1]
            /\ lessons' = lessons
            /\ lastGenerated' = lastGenerated ]_vars

----------------------------------------------------------------------------
(* Properties of the connectors (checked under SpecOrchestrator).          *)

\* C18: for each of the three connectors, an answer that does not parse as JSON
\* yields a best-effort result and not a failure: the attempt returns, so the
\* orchestrator returns that backend's result and goes no further.
C18_UnparsableIsBestEffort ==
    \A r \in Runs :
        LET att == runs[r].attempts
        IN \A n \in 1..Len(att) :
            att[n].met = "notJson" =>
                /\ att[n].returned
                /\ n = Len(att)
                /\ Returned(runs[r])
                /\ runs[r].result.title = att[n].backend

\* C19: every result a connector returns, and so every result
\* executeWithFallback returns, has a non-empty summary and at least one
\* flashcard.
C19_ResultNeverEmpty ==
    \A r \in Runs :
        Returned(runs[r]) =>
            /\ runs[r].result.summary > 0
            /\ Len(runs[r].result.flashcards) >= 1

\* C20: when the cloud credential is missing or empty the cloud backend fails
\* at once without a network request, the failure is recorded, and the
\* orchestrator continues with the next backend of the list (or, when there is
\* none, with the offline lesson).
C20_MissingKeyFailsFast ==
    \A r \in Runs :
        LET rv == runs[r]
            att == rv.attempts
            order == preferenceOrder(rv.settings)
            later(n) == { j \in KnownPositions(rv) : j > att[n].index }
        IN \A n \in 1..Len(att) :
            (att[n].backend = "gemini" /\ att[n].met = "noKey") =>
                /\ ~att[n].fetched
                /\ ~att[n].returned
                /\ Len(rv.errors) >= n
                /\ rv.errors[n] = [backend |-> "gemini", error |-> "noKey"]
                /\ IF later(n) = {}
                   THEN n = Len(att) /\ Returned(rv) /\ rv.result.title = "offline"
                   ELSE LET next == CHOOSE j \in later(n) : \A k \in later(n) : j <= k
                        IN IF n < Len(att)
                           THEN att[n + 1].index = next
                           ELSE rv.pc = "backend" /\ rv.index = next

\* The cloud backend, first in the list, had no key; the next backend was then
\* attempted and asked over the network.
C20_Witness ==
    \E r \in Runs :
        LET att == runs[r].attempts
        IN /\ Len(att) >= 2
           /\ att[1].backend = "gemini" /\ att[1].met = "noKey" /\ ~att[1].fetched
           /\ att[2].backend = "ollama" /\ att[2].fetched
           /\ Len(runs[r].errors) >= 1

\* The attempts that met the on-device capability query answering unavailable
\* or throwing.
QueryFailed(att) == att.backend = "promptApi" /\ att.met \in {"unavailable", "queryThrows"}

\* C21: the on-device backend creates a session and issues a prompt only after
\* the capability query has reported it available; when the query reports
\* unavailable or throws, no session is created and no prompt is sent, the
\* failure is recorded and the orchestrator continues with the next backend (or,
\* when there is none, with the offline lesson).
C21_PromptOnlyWhenAvailable ==
    \A r \in Runs :
        LET rv == runs[r]
            att == rv.attempts
            later(n) == { j \in KnownPositions(rv) : j > att[n].index }
        IN \A n \in 1..Len(att) :
            /\ att[n].prompted => att[n].created
            /\ att[n].created =>
                    /\ att[n].backend = "promptApi"
                    /\ att[n].met \in {"createFails", "promptFails", "json", "notJson"}
            /\ QueryFailed(att[n]) =>
                    /\ ~att[n].created /\ ~att[n].prompted
                    /\ ~att[n].returned
                    /\ Len(rv.errors) >= n
                    /\ rv.errors[n] = [backend |-> "promptApi", error |-> att[n].met]
                    /\ IF later(n) = {}
                       THEN n = Len(att) /\ Returned(rv) /\ rv.result.title = "offline"
                       ELSE LET next == CHOOSE j \in later(n) : \A k \in later(n) : j <= k
                            IN IF n < Len(att)
                               THEN att[n + 1].index = next
                               ELSE rv.pc = "backend" /\ rv.index = next

\* The capability query threw at the first on-device attempt and the next
\* backend was attempted; a second on-device attempt found the model available
\* and prompted it.
C21_Witness ==
    \E r \in Runs :
        LET att == runs[r].attempts
        IN /\ Len(att) = 3
           /\ att[1].met = "queryThrows" /\ ~att[1].created
           /\ att[2].backend # "promptApi"
           /\ att[3].backend = "promptApi" /\ att[3].created /\ att[3].prompted
           /\ att[3].returned

\* The preference is not a list, is an empty list, or holds no recognised
\* backend identifier.
InvalidPreference(rsettings) ==
    \/ ~Has(rsettings, "backendPreference")
    \/ \A j \in 1..Len(rsettings.backendPreference) :
            rsettings.backendPreference[j] \notin Backends

BackendsAttempted(rv) == [n \in 1..Len(rv.attempts) |-> rv.attempts[n].backend]

\* C22: when the configured preference is empty or invalid, executeWithFallback
\* attempts the default order gemini, ollama, promptApi: its attempts are the
\* beginning of that order, and all of it before an offline lesson is returned.
C22_InvalidPreferenceUsesDefault ==
    \A r \in Runs :
        LET rv == runs[r]
            tried == BackendsAttempted(rv)
        IN (rv.pc \in {"backend", "persistRead"} /\ InvalidPreference(rv.settings)) =>
            /\ Len(tried) <= Len(DefaultBackendPreference)
            /\ tried = SubSeq(DefaultBackendPreference, 1, Len(tried))
            /\ (Returned(rv) /\ ~Succeeded(rv)) => tried = DefaultBackendPreference

----------------------------------------------------------------------------
(* Properties of the catch-up on startup (checked under Spec).             *)

\* The time of the last successful generation: the generatedAt of the lesson
\* that was written together with the marker.
LastGenerationAt ==
    LET i == CHOOSE i \in 1..Len(lessons) : lessons[i].date = lastGenerated
    IN lessons[i].generatedAt

\* The step at which maybeCatchUpOnMissedLessons calls the pipeline.
CatchupStarts(r) == runs[r].pc = "startup" /\ runs'[r].pc = "read"

\* C23: maybeCatchUpOnMissedLessons starts a catchup run only when at least one
\* full day has elapsed since the last successful generation, and one invocation
\* performs at most one generation.
C23_CatchupAfterFullDay ==
    [][ \A r \in Runs :
            /\ CatchupStarts(r) =>
                    /\ lastGenerated # Null
                    /\ now - LastGenerationAt >= TicksPerDay
            /\ (runs[r].trigger = "catchup" /\ WriteStep(r)) => ~runs[r].wrote ]_vars

----------------------------------------------------------------------------
(* Properties of the daily alarm (checked under SpecAlarm).                *)

AlarmPcs == {"saveRead", "saveWrite", "alarmRead", "alarmClear", "alarmCreate"}

\* No handler is in the middle of saveSettings or ensureDailyAlarm.
AlarmCallsCompleted == \A r \in Runs : runs[r].pc \notin AlarmPcs

SavedSchedule == settings.schedule

\* C24: at every create, the alarm's first-fire time is strictly later than
\* the moment it was computed and the alarm replaces the one registered before;
\* and once every ensureDailyAlarm call has completed, exactly one alarm named
\* learnpulse-daily is registered, with a period of 24 hours, at the most
\* recently saved hour and minute.
C24_OneDailyAlarm ==
    /\ \A r \in Runs :
            runs[r].pc \in {"alarmClear", "alarmCreate"} => runs[r].when > runs[r].computedAt
    /\ Cardinality(alarms) <= 1
    /\ (AlarmCallsCompleted /\ alarms # {}) =>
            \E a \in alarms :
                /\ alarms = {a}
                /\ a.name = "learnpulse-daily"
                /\ a.periodInMinutes = 24 * 60
                /\ a.when % MinutesPerDay = SavedSchedule.hour * 60 + SavedSchedule.minute

----------------------------------------------------------------------------
(* Properties of the chunker (checked under SpecChunker).                  *)

Processed == 1..Len(chunker.log)

\* The chunks the j-th source of the list contributed.
Segment(j) ==
    SubSeq(chunker.chunks,
           (IF j = 1 THEN 0 ELSE chunker.log[j - 1].length) + 1,
           chunker.log[j].length)

ChunkLength(chunk) == chunk.text.to - chunk.text.from

\* The chunks are consecutive windows of the text id that begin at its first
\* character and end at its n-th: their concatenation is the text.
ConcatenationIs(seg, id, n) ==
    /\ \A i \in 1..Len(seg) : seg[i].text.id = id /\ seg[i].text.from < seg[i].text.to
    /\ \A i \in 1..(Len(seg) - 1) : seg[i + 1].text.from = seg[i].text.to
    /\ IF Len(seg) = 0 THEN n = 0
       ELSE seg[1].text.from = 0 /\ seg[Len(seg)].text.to = n

FetchFailed(j) == chunker.sources[j].type = "url" /\ chunker.log[j].fetched # "ok"

Base64Failed(j) ==
    chunker.sources[j].type = "file" /\ chunker.sources[j].content = "notBase64"

\* The source gives no text to decode or its processing throws.
Unreadable(j) ==
    \/ chunker.sources[j].type = "file" /\ chunker.sources[j].content = "other"
    \/ ~chunker.sources[j].value.string

\* The source's text reaches splitIntoChunks.
IsSplit(j) == ~FetchFailed(j) /\ ~Unreadable(j)

\* C26: splitIntoChunks cuts a normalized text of length n into ceil(n / 900)
\* consecutive windows, each of at most 900 characters and all but the last of
\* exactly 900, whose concatenation in order is the text; a non-empty text
\* shorter than the window yields exactly one chunk and an empty text none.
C26_FixedWindows ==
    \A j \in Processed :
        IsSplit(j) =>
            LET seg == Segment(j)
                n == chunker.sources[j].value.len
            IN /\ Len(seg) = (n + 899) \div 900
               /\ \A i \in 1..Len(seg) :
                    /\ ChunkLength(seg[i]) <= 900
                    /\ i < Len(seg) => ChunkLength(seg[i]) = 900
               /\ ConcatenationIs(seg, chunker.sources[j].value.id, n)
               /\ (n > 0 /\ n < 900) => Len(seg) = 1
               /\ (n = 0) => Len(seg) = 0

\* A text of 1801 characters was cut into 900, 900 and 1.
C26_Witness ==
    \E j \in Processed :
        /\ chunker.sources[j].value.len = 1801
        /\ Len(Segment(j)) = 3
        /\ ChunkLength(Segment(j)[3]) = 1

\* The pass goes through the sources in input order and stops at none; the
\* sources in failed contribute no chunks; every other source contributes the
\* windows of its text, in text order, under its own title.
PassOver(failed) ==
    /\ chunker.pc # "idle" => chunker.k = Len(chunker.log) + 1
    /\ chunker.pc = "done" =>
            /\ Len(chunker.log) = Len(chunker.sources)
            /\ Len(chunker.chunks) =
                    IF Len(chunker.log) = 0 THEN 0
                    ELSE chunker.log[Len(chunker.log)].length
    /\ \A j \in Processed :
            IF j \in failed
            THEN Len(Segment(j)) = 0
            ELSE /\ ConcatenationIs(Segment(j), chunker.sources[j].value.id,
                                    chunker.sources[j].value.len)
                 /\ \A i \in 1..Len(Segment(j)) :
                        Segment(j)[i].sourceTitle = chunker.sources[j].label

\* C25 as stated: a source whose fetch or decoding fails contributes no chunks
\* and does not stop the pass; the output lists the chunks of the other sources
\* in input order, each source's chunks in text order, with no deduplication.
C25_FailedSourceSkipped ==
    PassOver({ j \in Processed : FetchFailed(j) \/ Base64Failed(j) \/ Unreadable(j) })

\* C25 as amended: a source whose fetch fails, that gives no text to decode or
\* whose processing throws contributes no chunks and does not stop the pass; a
\* file whose content is not base64 contributes the chunks of the content as it
\* is stored; the output lists the chunks of the sources in input order, each
\* source's chunks in text order, with no deduplication.
C25_FailedFetchSkipped ==
    PassOver({ j \in Processed : FetchFailed(j) \/ Unreadable(j) })

\* A pass over a page whose fetch failed and the same file, not base64, twice:
\* nothing of the page, then one chunk of the file's stored content, then the
\* same chunk again.
C25_Witness ==
    /\ chunker.pc = "done"
    /\ Len(chunker.sources) = 3
    /\ FetchFailed(1) /\ Len(Segment(1)) = 0
    /\ Base64Failed(2)
    /\ chunker.sources[3] = chunker.sources[2]
    /\ Len(Segment(2)) = 1
    /\ Segment(2)[1].text.id = <<"stored", 0>>
    /\ Segment(3) = Segment(2)
    /\ Len(chunker.chunks) = 2

----------------------------------------------------------------------------
(* Properties of overlapping invocations (checked under Spec and            *)
(* SpecGrading).                                                            *)

\* The run has invoked a backend, holds a result to persist, or has written.
Generating(rv) ==
    rv.attempts # <<>> \/ rv.pc \in {"persistRead", "persistWrite"} \/ rv.wrote

\* C27: of the scheduled runs of one calendar day, however their awaits
\* interleave, only one invokes backends and writes lessons, flashcards and
\* stats.
C27_OneScheduledGenerationPerDay ==
    \A r1, r2 \in Runs :
        ( /\ r1 # r2
          /\ runs[r1].trigger = "scheduled" /\ runs[r2].trigger = "scheduled"
          /\ runs[r1].todayKey # Null
          /\ runs[r1].todayKey = runs[r2].todayKey )
        => ~(Generating(runs[r1]) /\ Generating(runs[r2]))

\* The card carries the state its last review left.
KeepsReview(old, new) ==
    Has(old, "lastReviewedAt") =>
        /\ Has(new, "lastReviewedAt")
        /\ new.lastReviewedAt = old.lastReviewedAt
        /\ new.lastGrade = old.lastGrade
        /\ new.repetitions = old.repetitions

\* C28: no completed update is lost, however gradings and generation runs
\* interleave at their storage awaits.  The write of a grading adds 1 to
\* totalFlashcardsReviewed as it stands and leaves in place the lessons, the
\* cards and the lesson count that generations have written; the write of a
\* generation leaves totalFlashcardsReviewed as it stands and every graded card
\* with the state of its last review.
C28_NoLostUpdate ==
    [][ /\ GradeWriteStep =>
            /\ stats'.totalFlashcardsReviewed = stats.totalFlashcardsReviewed + 1
            /\ stats'.totalLessons = stats.totalLessons
            /\ lessons' = lessons
            /\ IdsOf(flashcards) \subseteq IdsOf(flashcards')
        /\ \A r \in Runs : WriteStep(r) =>
            /\ stats'.totalFlashcardsReviewed = stats.totalFlashcardsReviewed
            /\ Len(flashcards') >= Len(flashcards)
            /\ \A i \in 1..Len(flashcards) : KeepsReview(flashcards[i], flashcards'[i])
      ]_vars

----------------------------------------------------------------------------
(* Properties of the grade clamp (checked under SpecAnyGrade).             *)

\* C29: for any grade, below 0 and above 5 included, applySm2Review returns
\* what it returns for the grade clamped into 0..5, and the lastGrade it
\* records is that clamped grade, within 0..5.
C29_GradeClamped ==
    \A n \in Reviews :
        LET g == srsLog[n].grade
            clamped == IF g < 0 THEN 0 ELSE IF g > 5 THEN 5 ELSE g
        IN /\ Reviewed(n).lastGrade = clamped
           /\ Reviewed(n).lastGrade \in 0..5
           /\ Reviewed(n) = applySm2Review(srsLog[n].prior, clamped, now)
           /\ (clamped < 3) => Reviewed(n).repetitions = 0
           /\ (clamped >= 3) => Reviewed(n).repetitions = Sm2Repetitions(srsLog[n].prior) + 1

\* A grade of -2 was taken as 0 (the card was reset) and a grade of 7 as 5.
C29_Witness ==
    /\ Len(srsLog) = 2
    /\ srsLog[1].grade = 0 - 2 /\ Reviewed(1).lastGrade = 0 /\ Reviewed(1).repetitions = 0
    /\ srsLog[2].grade = 7 /\ Reviewed(2).lastGrade = 5 /\ Reviewed(2).repetitions = 1

----------------------------------------------------------------------------
(* Properties of the due date of a graded card (checked under SpecGrading). *)

\* The card was graded and the time its review set for it has not come.
GradedNotYetDue(card) == Has(card, "lastReviewedAt") /\ now < card.dueDate

\* The step is the write of a generation whose cards include the question.
RefreshStep(card) ==
    \E r \in Runs :
        /\ WriteStep(r)
        /\ \E k \in 1..Len(runs[r].result.flashcards) :
                runs[r].result.flashcards[k].question = card.question

\* C30: the write of gradeFlashcard at time t leaves the graded card with
\* dueDate = t + its new interval in whole days, lastReviewedAt = t and lastGrade
\* set; and from then on, at every time before that dueDate, the card is not due
\* and is absent from dueFlashcards, unless a generation run refreshes it (or it
\* is graded again).
C30_GradedCardNotDue ==
    [][ /\ GradeWriteStep =>
            \E i \in 1..Len(flashcards') :
                /\ flashcards'[i].id = grader.cardId
                /\ flashcards'[i].dueDate = now + flashcards'[i].interval * TicksPerDay
                /\ flashcards'[i].lastReviewedAt = now
                /\ flashcards'[i].lastGrade = ClampGrade(grader.grade)
        /\ \A i \in 1..Len(flashcards) :
            GradedNotYetDue(flashcards[i]) =>
                /\ ~isCardDue(flashcards[i], now)
                /\ Len(dueFlashcards(flashcards, now)) =
                        Cardinality({ j \in 1..Len(flashcards) :
                                        isCardDue(flashcards[j], now) })
                /\ \/ /\ i <= Len(flashcards')
                       /\ flashcards'[i].id = flashcards[i].id
                       /\ flashcards'[i].dueDate = flashcards[i].dueDate
                   \/ RefreshStep(flashcards[i])
                   \/ GradeWriteStep /\ flashcards[i].id = grader.cardId
      ]_vars


----------------------------------------------------------------------------
(* Properties of the stored card list.                                     *)

\* C31: the cards of the stored list have pairwise distinct ids, whatever runs
\* and gradings came before (several runs on one day included).
C31_DistinctCardIds ==
    \A i, j \in 1..Len(flashcards) :
        i # j => flashcards[i].id # flashcards[j].id

\* C32: no two cards of the stored list hold the same question, also after a
\* run whose result holds one new question more than once.
C32_DistinctQuestions ==
    \A i, j \in 1..Len(flashcards) :
        i # j => flashcards[i].question # flashcards[j].question

----------------------------------------------------------------------------
(* Properties of the ease factor (checked under SpecAnyGrade).             *)

\* 0.1 - (5 - g) * (0.08 + (5 - g) * 0.02) in hundredths, for the passing grades.
EaseAdjustment(g) == CASE g = 5 -> 10 [] g = 4 -> 0 [] g = 3 -> 0 - 14

\* C33: a review with a grade below 3 leaves the easeFactor as it was after the
\* lazy default (2.5 for a missing or zero value); a review with a grade of 3 or
\* more sets it to the prior value plus the SM-2 adjustment, floored at 1.3.
C33_FailKeepsEase ==
    \A n \in Reviews :
        LET prior == srsLog[n].prior
            g == ClampGrade(srsLog[n].grade)
        IN /\ g < 3 => Reviewed(n).easeFactor = Sm2Ease(prior)
           /\ g >= 3 => Reviewed(n).easeFactor =
                            Max(MinEase, Sm2Ease(prior) + EaseAdjustment(g))

\* A card without easeFactor fails with grade 1 and holds 2.5; it then passes
\* with grade 5 and holds 2.6.
C33_Witness ==
    /\ Len(srsLog) = 2
    /\ srsLog[1].grade = 1 /\ ~Has(srsLog[1].prior, "easeFactor")
    /\ Reviewed(1).easeFactor = 250
    /\ srsLog[2].grade = 5
    /\ Reviewed(2).easeFactor = 260

----------------------------------------------------------------------------
(* Properties of the stores taken together (checked under SpecGrading).    *)

\* C34: once a generation has been persisted, stats.lastLessonDate equals the
\* last-generation marker and the lesson list holds a record dated with that
\* day, in every state and under every interleaving of runs and gradings.
C34_StatsAgreeWithMarker ==
    lastGenerated # Null =>
        /\ stats.lastLessonDate = lastGenerated
        /\ \E k \in 1..Len(lessons) : lessons[k].date = lastGenerated

----------------------------------------------------------------------------
(* Properties of the run's notifications (checked under Spec).             *)

\* The run has called chrome.notifications.create with this identifier.
Issued(rv, id) == \E k \in 1..Len(rv.notified) : rv.notified[k] = id

\* C35: a run issues learnpulse-daily-error only if it persisted nothing, and
\* it issues at most one of learnpulse-daily-ready and learnpulse-daily-error,
\* also when a call of the notification primitive fails.
C35_ErrorOnlyWithoutPersistence ==
    \A r \in Runs :
        /\ Issued(runs[r], "learnpulse-daily-error") => ~runs[r].wrote
        /\ ~(Issued(runs[r], "learnpulse-daily-ready")
                /\ Issued(runs[r], "learnpulse-daily-error"))

====
